---- MODULE Spec2Model ----
(***************************************************************************)
(* Coordinate value model of rust-osm: Latitude, Longitude, Coordinates    *)
(* and BBox.                                                               *)
(*                                                                         *)
(* CoordinateType (f32/f64) is modelled by the integers, one unit being    *)
(* one degree.  Every operation is computed in exact arithmetic; inputs    *)
(* of operations that divide are drawn from sets on which the quotient is  *)
(* exact, so no rounding is modelled.  NaN, infinities and floating-point  *)
(* rounding are outside the model.                                         *)
(***************************************************************************)
EXTENDS Integers, Sequences, FiniteSets, TLC

VARIABLES raw, a, b, p, q, v, out

vars == <<raw, a, b, p, q, v, out>>

\* A variable a specification does not use holds this value throughout.
Unused == [op |-> "unused"]

\* out before any operation has been applied.
NoOut == [op |-> "none"]

(***************************************************************************)
(* Bounds of the model                                                     *)
(***************************************************************************)

\* Raw scalars handed to the Longitude constructors range over -MaxRawLon..MaxRawLon.
MaxRawLon == 400

\* Grid of the scalars handed to the Coordinates and BBox operations: the
\* multiples of 2 * LatHalfStep (2 * LonHalfStep) together with the ends of
\* the valid range.  Grid values are even, so halving a delta is exact.
LatHalfStep == 45

LonHalfStep == 45

\* Raw grid scalars reach beyond the valid ranges, up to these magnitudes.
MaxRawLatGrid == 180

MaxRawLonGrid == 360

\* The scalar factors and divisors of the arithmetic range over
\* -MaxFactor..MaxFactor.
MaxFactor == 3

(***************************************************************************)
(* Scalars: ranges, normalisation, Latitude, Longitude                     *)
(***************************************************************************)

LATITUDE_RANGE == [start |-> -90, end |-> 90]

LONGITUDE_RANGE == [start |-> -180, end |-> 180]

\* RangeInclusive::contains
RangeContains(r, x) == r.start <= x /\ x <= r.end

Abs(x) == IF x >= 0 THEN x ELSE -x

\* The / of CoordinateType, for a non-zero divisor k: the quotient, which is
\* exact where k divides x (Divides); the operations that divide are applied
\* to such operands only.
Quot(x, k) ==
    IF (x >= 0) = (k > 0) THEN Abs(x) \div Abs(k) ELSE -(Abs(x) \div Abs(k))

Divides(k, x) == k # 0 /\ x % Abs(k) = 0

\* The % of Rust on numbers: the remainder has the sign of the dividend.
TruncRem(x, m) == IF x >= 0 THEN x % m ELSE -((-x) % m)

\* rem_euclid without the correction of a negative remainder.
rem_euclid_trunc(x, m) == TruncRem(x, m)

\* rem_euclid: r = x % m; if r < 0 then r + |m| else r.
rem_euclid(x, m) ==
    LET r == TruncRem(x, m)
    IN  IF r < 0 THEN r + m ELSE r

\* impl Normalized for Longitude: MIN, MAX and the default SPAN.
LonMIN == LONGITUDE_RANGE.start

LonMAX == LONGITUDE_RANGE.end

LonSPAN == LonMAX - LonMIN

\* normalized without the shift back by MIN.
normalized_noshift(value) == rem_euclid(value - LonMIN, LonSPAN)

\* Normalized::normalized, instantiated for Longitude.
normalized(value) == rem_euclid(value - LonMIN, LonSPAN) + LonMIN

\* Longitude::is_valid over the half-open range -180.0..180.0.
Longitude_is_valid_halfopen(longitude) ==
    LONGITUDE_RANGE.start <= longitude /\ longitude < LONGITUDE_RANGE.end

\* Longitude::is_valid
Longitude_is_valid(longitude) == RangeContains(LONGITUDE_RANGE, longitude)

\* Longitude::new: Ok(longitude) or Err(OutOfRange((longitude, LONGITUDE_RANGE))).
Longitude_new(longitude) ==
    IF Longitude_is_valid(longitude)
    THEN [ok |-> TRUE, val |-> longitude]
    ELSE [ok |-> FALSE, err |-> "OutOfRange", value |-> longitude,
          range |-> LONGITUDE_RANGE]

\* Longitude::from_wrapped keeping a value that is_valid accepts, 180 included.
Longitude_from_wrapped_closed(longitude) ==
    IF Longitude_is_valid(longitude) THEN longitude ELSE normalized(longitude)

\* Longitude::from_wrapped
Longitude_from_wrapped(longitude) == normalized(longitude)

\* f64::clamp(min, max)
clamp(x, lo, hi) == IF x < lo THEN lo ELSE IF x > hi THEN hi ELSE x

\* Latitude::is_valid over the half-open range -90.0..90.0.
Latitude_is_valid_halfopen(latitude) ==
    LATITUDE_RANGE.start <= latitude /\ latitude < LATITUDE_RANGE.end

\* Latitude::is_valid
Latitude_is_valid(latitude) == RangeContains(LATITUDE_RANGE, latitude)

\* Latitude::new: Ok(latitude) or Err(OutOfRange((latitude, LATITUDE_RANGE))).
Latitude_new(latitude) ==
    IF Latitude_is_valid(latitude)
    THEN [ok |-> TRUE, val |-> latitude]
    ELSE [ok |-> FALSE, err |-> "OutOfRange", value |-> latitude,
          range |-> LATITUDE_RANGE]

\* Latitude::from_clamped reducing with Normalized::normalized of Latitude
\* (MIN = -90, MAX = 90) instead of clamping.
Latitude_from_clamped_normalized(latitude) ==
    rem_euclid(latitude - LATITUDE_RANGE.start,
               LATITUDE_RANGE.end - LATITUDE_RANGE.start)
        + LATITUDE_RANGE.start

\* Latitude::from_clamped
Latitude_from_clamped(latitude) ==
    clamp(latitude, LATITUDE_RANGE.start, LATITUDE_RANGE.end)

\* Derived PartialOrd of Latitude and of Longitude: the comparison of the
\* wrapped numbers.
scalar_partial_cmp(x, y) ==
    IF x < y THEN "Less" ELSE IF x = y THEN "Equal" ELSE "Greater"

\* impl Add, Sub, Mul, Div, Neg for Latitude (and the Assign forms): the raw
\* result, clamped.
Latitude_add(x, rhs) == Latitude_from_clamped(x + rhs)

Latitude_sub(x, rhs) == Latitude_from_clamped(x - rhs)

Latitude_mul(x, rhs) == Latitude_from_clamped(x * rhs)

\* Applied only where rhs divides x.
Latitude_div(x, rhs) == Latitude_from_clamped(Quot(x, rhs))

Latitude_neg(x) == Latitude_from_clamped(-x)

\* impl Add, Sub, Mul, Div, Neg for Longitude (and the Assign forms): the raw
\* result, wrapped.
Longitude_add(x, rhs) == Longitude_from_wrapped(x + rhs)

Longitude_sub(x, rhs) == Longitude_from_wrapped(x - rhs)

Longitude_mul(x, rhs) == Longitude_from_wrapped(x * rhs)

\* Applied only where rhs divides x.
Longitude_div(x, rhs) == Longitude_from_wrapped(Quot(x, rhs))

\* impl Neg for Longitude returning the antipodal meridian.
Longitude_neg_antipode(x) == Longitude_from_wrapped(x + LonSPAN \div 2)

Longitude_neg(x) == Longitude_from_wrapped(-x)

(***************************************************************************)
(* Coordinates                                                             *)
(***************************************************************************)

\* Coordinates::new
Coordinates_new(latitude, longitude) ==
    [latitude |-> latitude, longitude |-> longitude]

\* Coordinates::from_value validating the longitude before the latitude.
Coordinates_from_value_lon_first(latitude, longitude) ==
    LET lat == Latitude_new(latitude)
        lon == Longitude_new(longitude)
    IN  IF ~lon.ok THEN lon
        ELSE IF ~lat.ok THEN lat
        ELSE [ok |-> TRUE, val |-> Coordinates_new(lat.val, lon.val)]

\* Coordinates::from_value: the ? operator returns the first error, the
\* latitude's before the longitude's.
Coordinates_from_value(latitude, longitude) ==
    LET lat == Latitude_new(latitude)
        lon == Longitude_new(longitude)
    IN  IF ~lat.ok THEN lat
        ELSE IF ~lon.ok THEN lon
        ELSE [ok |-> TRUE, val |-> Coordinates_new(lat.val, lon.val)]

\* Coordinates::from_unchecked
Coordinates_from_unchecked(latitude, longitude) ==
    Coordinates_new(latitude, longitude)

\* Coordinates::from_wrapped storing the raw numbers as from_unchecked does.
Coordinates_from_wrapped_unchecked(latitude, longitude) ==
    Coordinates_new(latitude, longitude)

\* Coordinates::from_wrapped reducing the latitude circularly into [-90, 90)
\* instead of saturating it.
Coordinates_from_wrapped_lat_wrapped(latitude, longitude) ==
    Coordinates_new(Latitude_from_clamped_normalized(latitude),
                    Longitude_from_wrapped(longitude))

\* Coordinates::from_wrapped
Coordinates_from_wrapped(latitude, longitude) ==
    Coordinates_new(Latitude_from_clamped(latitude),
                    Longitude_from_wrapped(longitude))

\* impl PartialEq for Coordinates
Coordinates_eq(x, y) ==
    x.latitude = y.latitude /\ x.longitude = y.longitude

\* partial_cmp answering Less as soon as one axis is less, whatever the other.
Coordinates_partial_cmp_either_axis(x, y) ==
    LET lat_cmp == scalar_partial_cmp(x.latitude, y.latitude)
        lon_cmp == scalar_partial_cmp(x.longitude, y.longitude)
    IN  IF lat_cmp = "Less" \/ lon_cmp = "Less" THEN "Less"
        ELSE IF lat_cmp = "Greater" \/ lon_cmp = "Greater" THEN "Greater"
        ELSE "Equal"

\* partial_cmp as the lexicographic order of (latitude, longitude).
Coordinates_partial_cmp_lex(x, y) ==
    LET lat_cmp == scalar_partial_cmp(x.latitude, y.latitude)
    IN  IF lat_cmp = "Equal"
        THEN scalar_partial_cmp(x.longitude, y.longitude)
        ELSE lat_cmp

\* impl PartialOrd for Coordinates: "None" stands for no ordering.
Coordinates_partial_cmp(x, y) ==
    LET lat_cmp == scalar_partial_cmp(x.latitude, y.latitude)
        lon_cmp == scalar_partial_cmp(x.longitude, y.longitude)
    IN  CASE lat_cmp = "Less" /\ lon_cmp \in {"Less", "Equal"} -> "Less"
          [] lat_cmp = "Equal" /\ lon_cmp = "Less" -> "Less"
          [] lat_cmp = "Equal" /\ lon_cmp = "Equal" -> "Equal"
          [] lat_cmp = "Greater" /\ lon_cmp \in {"Greater", "Equal"} -> "Greater"
          [] lat_cmp = "Equal" /\ lon_cmp = "Greater" -> "Greater"
          [] OTHER -> "None"

\* The provided methods of PartialOrd: lt, le, gt, ge over partial_cmp.
Coordinates_lt(x, y) == Coordinates_partial_cmp(x, y) = "Less"

Coordinates_le(x, y) == Coordinates_partial_cmp(x, y) \in {"Less", "Equal"}

Coordinates_gt(x, y) == Coordinates_partial_cmp(x, y) = "Greater"

Coordinates_ge(x, y) == Coordinates_partial_cmp(x, y) \in {"Greater", "Equal"}

\* impl Add, Sub for Coordinates (and the by-reference forms)
Coordinates_add(x, rhs) ==
    Coordinates_new(Latitude_add(x.latitude, rhs.latitude),
                    Longitude_add(x.longitude, rhs.longitude))

Coordinates_sub(x, rhs) ==
    Coordinates_new(Latitude_sub(x.latitude, rhs.latitude),
                    Longitude_sub(x.longitude, rhs.longitude))

\* impl Mul<T> for Coordinates saturating the longitude product into
\* [-180, 180] instead of wrapping it.
Coordinates_mul_lon_clamped(x, rhs) ==
    Coordinates_new(Latitude_mul(x.latitude, rhs),
                    clamp(x.longitude * rhs, LONGITUDE_RANGE.start,
                          LONGITUDE_RANGE.end))

\* impl Mul<T>, Div<T> for Coordinates
Coordinates_mul(x, rhs) ==
    Coordinates_new(Latitude_mul(x.latitude, rhs),
                    Longitude_mul(x.longitude, rhs))

Coordinates_div(x, rhs) ==
    Coordinates_new(Latitude_div(x.latitude, rhs),
                    Longitude_div(x.longitude, rhs))

\* impl AddAssign, SubAssign, MulAssign<T>, DivAssign<T> for Coordinates: the
\* value of *self after the call.
Coordinates_add_assign(x, rhs) ==
    Coordinates_new(Latitude_add(x.latitude, rhs.latitude),
                    Longitude_add(x.longitude, rhs.longitude))

Coordinates_sub_assign(x, rhs) ==
    Coordinates_new(Latitude_sub(x.latitude, rhs.latitude),
                    Longitude_sub(x.longitude, rhs.longitude))

Coordinates_mul_assign(x, rhs) ==
    Coordinates_new(Latitude_mul(x.latitude, rhs),
                    Longitude_mul(x.longitude, rhs))

Coordinates_div_assign(x, rhs) ==
    Coordinates_new(Latitude_div(x.latitude, rhs),
                    Longitude_div(x.longitude, rhs))

(***************************************************************************)
(* BBox (coord/bbox.rs)                                                    *)
(***************************************************************************)

\* f64::max, f64::min
max(x, y) == IF x >= y THEN x ELSE y

min(x, y) == IF x <= y THEN x ELSE y

\* BBox::from_unchecked
BBox_from_unchecked(south_west, north_east) ==
    [south_west |-> south_west, north_east |-> north_east]

\* BBox::new accepting every pair with south_west < north_east in the
\* dominance order of Coordinates.
BBox_new_dominance(south_west, north_east) ==
    IF Coordinates_lt(south_west, north_east)
    THEN [ok |-> TRUE, val |-> BBox_from_unchecked(south_west, north_east)]
    ELSE [ok |-> FALSE, err |-> "InvalidCornerOrder",
          south_west |-> south_west, north_east |-> north_east]

\* BBox::new: Ok(box) or Err(InvalidCornerOrder((south_west, north_east))).
BBox_new(south_west, north_east) ==
    IF /\ scalar_partial_cmp(south_west.latitude, north_east.latitude) = "Less"
       /\ scalar_partial_cmp(south_west.longitude, north_east.longitude) = "Less"
    THEN [ok |-> TRUE, val |-> BBox_from_unchecked(south_west, north_east)]
    ELSE [ok |-> FALSE, err |-> "InvalidCornerOrder",
          south_west |-> south_west, north_east |-> north_east]

\* BBox::from_wrapped with latitude and longitude exchanged.
BBox_from_wrapped_swapped(sw_lat, sw_lon, ne_lat, ne_lon) ==
    BBox_from_unchecked(Coordinates_from_wrapped(sw_lon, sw_lat),
                        Coordinates_from_wrapped(ne_lon, ne_lat))

\* BBox::from_wrapped
BBox_from_wrapped(sw_lat, sw_lon, ne_lat, ne_lon) ==
    BBox_from_unchecked(Coordinates_from_wrapped(sw_lat, sw_lon),
                        Coordinates_from_wrapped(ne_lat, ne_lon))

\* BBox::delta_lat_deg, BBox::delta_lon_deg
delta_lat_deg(bbox) == bbox.north_east.latitude - bbox.south_west.latitude

delta_lon_deg(bbox) == bbox.north_east.longitude - bbox.south_west.longitude

\* BBox::corners
corners(bbox) ==
    <<bbox.south_west.latitude, bbox.south_west.longitude,
      bbox.north_east.latitude, bbox.north_east.longitude>>

\* BBox::area_deg2
area_deg2(bbox) == delta_lon_deg(bbox) * delta_lat_deg(bbox)

\* BBox::center with the (height, width) vector given as (width, height).
center_swapped(bbox) ==
    Coordinates_add(bbox.south_west,
                    Coordinates_from_wrapped(Quot(delta_lon_deg(bbox), 2),
                                             Quot(delta_lat_deg(bbox), 2)))

\* BBox::center
center(bbox) ==
    Coordinates_add(bbox.south_west,
                    Coordinates_from_wrapped(Quot(delta_lat_deg(bbox), 2),
                                             Quot(delta_lon_deg(bbox), 2)))

\* BBox::between_inclusive with exclusive bounds.
between_exclusive(x, lo, hi) == x > lo /\ x < hi

\* BBox::between_inclusive
between_inclusive(x, lo, hi) == x >= lo /\ x <= hi

\* BBox::overlaps_1d with the second comparison strict.
overlaps_1d_asym(a_min, a_max, b_min, b_max) == a_min <= b_max /\ b_min < a_max

\* BBox::overlaps_1d with both comparisons strict.
overlaps_1d_strict(a_min, a_max, b_min, b_max) == a_min < b_max /\ b_min < a_max

\* BBox::overlaps_1d
overlaps_1d(a_min, a_max, b_min, b_max) == a_min <= b_max /\ b_min <= a_max

\* BBox::contains without the longitude check.
contains_lat_only(bbox, pt) ==
    between_inclusive(pt.latitude, bbox.south_west.latitude,
                      bbox.north_east.latitude)

\* BBox::contains
contains(bbox, pt) ==
    /\ between_inclusive(pt.latitude, bbox.south_west.latitude,
                         bbox.north_east.latitude)
    /\ between_inclusive(pt.longitude, bbox.south_west.longitude,
                         bbox.north_east.longitude)

\* BBox::contains_bbox testing the south-west corner of other only.
contains_bbox_sw_only(bbox, other) == contains(bbox, other.south_west)

\* BBox::contains_bbox
contains_bbox(bbox, other) ==
    contains(bbox, other.south_west) /\ contains(bbox, other.north_east)

\* BBox::intersects
intersects(bbox, other) ==
    /\ overlaps_1d(bbox.south_west.latitude, bbox.north_east.latitude,
                   other.south_west.latitude, other.north_east.latitude)
    /\ overlaps_1d(bbox.south_west.longitude, bbox.north_east.longitude,
                   other.south_west.longitude, other.north_east.longitude)

\* BBox::intersection: None, or Some(box).
intersection(bbox, other) ==
    IF ~intersects(bbox, other)
    THEN [some |-> FALSE]
    ELSE LET sw_lat == max(bbox.south_west.latitude, other.south_west.latitude)
             sw_lon == max(bbox.south_west.longitude, other.south_west.longitude)
             ne_lat == min(bbox.north_east.latitude, other.north_east.latitude)
             ne_lon == min(bbox.north_east.longitude, other.north_east.longitude)
         IN  [some |-> TRUE,
              val |-> BBox_from_wrapped(sw_lat, sw_lon, ne_lat, ne_lon)]

\* BBox::expand growing each corner by the whole delta_coord.
expand_whole(bbox, delta_coord) ==
    BBox_from_unchecked(Coordinates_sub(bbox.south_west, delta_coord),
                        Coordinates_add(bbox.north_east, delta_coord))

\* BBox::expand (coordinates/bbox.rs): the box after the call.
expand(bbox, delta_coord) ==
    LET half_delta_coord == Coordinates_div(delta_coord, 2)
    IN  BBox_from_unchecked(Coordinates_sub(bbox.south_west, half_delta_coord),
                            Coordinates_add(bbox.north_east, half_delta_coord))

\* impl PartialEq for BBox comparing the areas of the two boxes.
BBox_eq_area(x, y) == area_deg2(x) = area_deg2(y)

\* impl PartialEq for BBox
BBox_eq(x, y) ==
    /\ Coordinates_eq(x.south_west, y.south_west)
    /\ Coordinates_eq(x.north_east, y.north_east)

\* partial_cmp of BBox with Less and Greater exchanged.
BBox_partial_cmp_swapped(x, y) ==
    LET a_in_b == contains_bbox(y, x)
        b_in_a == contains_bbox(x, y)
    IN  CASE a_in_b /\ b_in_a -> "Equal"
          [] a_in_b /\ ~b_in_a -> "Greater"
          [] ~a_in_b /\ b_in_a -> "Less"
          [] OTHER -> "None"

\* impl PartialOrd for BBox: "None" stands for no ordering.
BBox_partial_cmp(x, y) ==
    LET a_in_b == contains_bbox(y, x)
        b_in_a == contains_bbox(x, y)
    IN  CASE a_in_b /\ b_in_a -> "Equal"
          [] a_in_b /\ ~b_in_a -> "Less"
          [] ~a_in_b /\ b_in_a -> "Greater"
          [] OTHER -> "None"

\* impl From<BBox> for (CoordinateType, CoordinateType, CoordinateType,
\* CoordinateType)
BBox_into_tuple(value) ==
    <<value.south_west.latitude, value.south_west.longitude,
      value.north_east.latitude, value.north_east.longitude>>

\* try_from validating the two corners but not their order.
BBox_try_from_unordered(tuple) ==
    LET sw == Coordinates_from_value(tuple[1], tuple[2])
        ne == Coordinates_from_value(tuple[3], tuple[4])
    IN  IF ~sw.ok THEN sw
        ELSE IF ~ne.ok THEN ne
        ELSE [ok |-> TRUE, val |-> BBox_from_unchecked(sw.val, ne.val)]

\* impl TryFrom<(T, T, T, T)> for BBox: the first error of the two
\* from_value calls, else the result of BBox::new.
BBox_try_from(tuple) ==
    LET sw == Coordinates_from_value(tuple[1], tuple[2])
        ne == Coordinates_from_value(tuple[3], tuple[4])
    IN  IF ~sw.ok THEN sw
        ELSE IF ~ne.ok THEN ne
        ELSE BBox_new(sw.val, ne.val)

\* impl Mul<T> for BBox, impl Div<T> for BBox (coord/bbox.rs)
BBox_mul(bbox, rhs) ==
    BBox_from_unchecked(Coordinates_mul(bbox.south_west, rhs),
                        Coordinates_mul(bbox.north_east, rhs))

BBox_div(bbox, rhs) ==
    BBox_from_unchecked(Coordinates_div(bbox.south_west, rhs),
                        Coordinates_div(bbox.north_east, rhs))

\* impl Mul<T> for BBox, impl Div<T> for BBox (coordinates/bbox.rs): div
\* builds the box from self.south_west * rhs and self.north_east * rhs.
coordinates_BBox_mul(bbox, rhs) ==
    BBox_from_unchecked(Coordinates_mul(bbox.south_west, rhs),
                        Coordinates_mul(bbox.north_east, rhs))

coordinates_BBox_div(bbox, rhs) ==
    BBox_from_unchecked(Coordinates_mul(bbox.south_west, rhs),
                        Coordinates_mul(bbox.north_east, rhs))

(***************************************************************************)
(* Specification SpecLon: Longitude::from_wrapped on raw scalars           *)
(***************************************************************************)

RawLon == -MaxRawLon .. MaxRawLon

InitLon ==
    /\ v \in RawLon
    /\ out = NoOut
    /\ raw = Unused /\ a = Unused /\ b = Unused /\ p = Unused /\ q = Unused

\* Longitude::from_wrapped(v)
Wrap ==
    /\ out.op = "none"
    /\ out' = [op |-> "from_wrapped", val |-> Longitude_from_wrapped(v)]
    /\ UNCHANGED <<raw, a, b, p, q, v>>

\* Longitude::from_wrapped(Longitude::from_wrapped(v).value())
Rewrap ==
    /\ out.op = "from_wrapped"
    /\ out' = [op |-> "rewrapped", first |-> out.val,
               val |-> Longitude_from_wrapped(out.val)]
    /\ UNCHANGED <<raw, a, b, p, q, v>>

\* Latitude::new(v)
LatNew ==
    /\ out.op = "none"
    /\ out' = [op |-> "Latitude::new", res |-> Latitude_new(v)]
    /\ UNCHANGED <<raw, a, b, p, q, v>>

\* Longitude::new(v)
LonNew ==
    /\ out.op = "none"
    /\ out' = [op |-> "Longitude::new", res |-> Longitude_new(v)]
    /\ UNCHANGED <<raw, a, b, p, q, v>>

\* Latitude::from_clamped(v)
LatFromClamped ==
    /\ out.op = "none"
    /\ out' = [op |-> "from_clamped", val |-> Latitude_from_clamped(v)]
    /\ UNCHANGED <<raw, a, b, p, q, v>>

\* -x and -(-x) for the Longitude x that Longitude::new(v) returns.
NegTwice ==
    /\ out.op = "none"
    /\ Longitude_new(v).ok
    /\ LET x == Longitude_new(v).val
       IN  out' = [op |-> "neg", x |-> x, neg |-> Longitude_neg(x),
                   negneg |-> Longitude_neg(Longitude_neg(x))]
    /\ UNCHANGED <<raw, a, b, p, q, v>>

NextLon == Wrap \/ Rewrap \/ LatNew \/ LonNew \/ LatFromClamped \/ NegTwice

SpecLon == InitLon /\ [][NextLon]_vars

\* C6: Longitude::from_wrapped(v) is ((v + 180) mod 360) - 180 with the
\* non-negative remainder; the result lies in [-180, 180), equals v when v
\* is already in [-180, 180), and 180, -180, 360, -360 map to -180, -180, 0, 0.
C6_WrapFormula ==
    out.op = "from_wrapped" =>
        /\ out.val = ((v + 180) % 360) - 180
        /\ -180 <= out.val /\ out.val < 180
        /\ (-180 <= v /\ v < 180) => out.val = v
        /\ v = 180 => out.val = -180
        /\ v = -180 => out.val = -180
        /\ v = 360 => out.val = 0
        /\ v = -360 => out.val = 0

C6_Witness == out.op = "from_wrapped" /\ v = -190 /\ out.val = 170

\* C7: wrapping is idempotent: wrapping the value of a wrapped longitude
\* gives the same longitude.
C7_WrapIdempotent ==
    out.op = "rewrapped" => out.val = out.first

C7_Witness == out.op = "rewrapped" /\ v = 190 /\ out.first = -170 /\ out.val = -170


\* C18: Latitude::new(v) is Ok holding v iff -90 <= v <= 90, both bounds
\* accepted; otherwise Err(OutOfRange) carrying v and the range -90..=90.
C18_LatitudeNewValidates ==
    out.op = "Latitude::new" =>
        IF -90 <= v /\ v <= 90
        THEN out.res = [ok |-> TRUE, val |-> v]
        ELSE /\ ~out.res.ok
             /\ out.res.err = "OutOfRange"
             /\ out.res.value = v
             /\ out.res.range = [start |-> -90, end |-> 90]

C18_Witness ==
    /\ out.op = "Latitude::new"
    /\ v = 90
    /\ out.res.ok
    /\ out.res.val = 90

\* C19: Longitude::new(v) is Ok holding v iff -180 <= v <= 180, both bounds
\* accepted (+180 too, which from_wrapped never produces); otherwise
\* Err(OutOfRange) carrying v and the range -180..=180.
C19_LongitudeNewValidates ==
    /\ out.op = "Longitude::new" =>
        IF -180 <= v /\ v <= 180
        THEN out.res = [ok |-> TRUE, val |-> v]
        ELSE /\ ~out.res.ok
             /\ out.res.err = "OutOfRange"
             /\ out.res.value = v
             /\ out.res.range = [start |-> -180, end |-> 180]
    /\ out.op = "from_wrapped" => out.val # 180

C19_Witness ==
    /\ out.op = "Longitude::new"
    /\ v = 180
    /\ out.res.ok
    /\ out.res.val = 180

\* C20: Latitude::from_clamped(v) always returns a latitude in [-90, 90]:
\* v when -90 <= v <= 90, 90 when v > 90, -90 when v < -90.
C20_FromClampedSaturates ==
    out.op = "from_clamped" =>
        /\ -90 <= out.val /\ out.val <= 90
        /\ (-90 <= v /\ v <= 90) => out.val = v
        /\ v > 90 => out.val = 90
        /\ v < -90 => out.val = -90

C20_Witness ==
    /\ out.op = "from_clamped"
    /\ v = -200
    /\ out.val = -90

\* C24 as stated: for every Longitude x accepted by Longitude::new (value in
\* [-180, 180]), (-x).value() is -(x.value()), and negating twice returns x.
C24_Original ==
    out.op = "neg" =>
        /\ out.neg = -out.x
        /\ out.negneg = out.x

\* C24 amended: (-x).value() is -(x.value()) for every Longitude x with
\* value in (-180, 180], and negating twice returns x for every x with value
\* in (-180, 180); the negation of -180 is -180, so is the double negation
\* of 180.
C24_NegIsOppositeInsideRange ==
    out.op = "neg" =>
        /\ (-180 < out.x /\ out.x <= 180) => out.neg = -out.x
        /\ (-180 < out.x /\ out.x < 180) => out.negneg = out.x
        /\ out.x = -180 => out.neg = -180
        /\ out.x = 180 => out.negneg = -180

\* The case of longitude_test::neg.
C24_Witness ==
    /\ out.op = "neg"
    /\ out.x = 45
    /\ out.neg = -45
    /\ out.negneg = 45

(***************************************************************************)
(* Input grids                                                             *)
(***************************************************************************)

RawLatGrid ==
    {x \in -MaxRawLatGrid .. MaxRawLatGrid : x % (2 * LatHalfStep) = 0}
        \cup {LATITUDE_RANGE.start, LATITUDE_RANGE.end}

RawLonGrid ==
    {x \in -MaxRawLonGrid .. MaxRawLonGrid : x % (2 * LonHalfStep) = 0}
        \cup {LONGITUDE_RANGE.start, LONGITUDE_RANGE.end}

RawQuads == RawLatGrid \X RawLonGrid \X RawLatGrid \X RawLonGrid

(***************************************************************************)
(* Specification SpecCtor: the BBox constructors on raw quadruples         *)
(* (sw_lat, sw_lon, ne_lat, ne_lon)                                        *)
(***************************************************************************)

InitCtor ==
    /\ raw \in RawQuads
    /\ out = NoOut
    /\ a = Unused /\ b = Unused /\ p = Unused /\ q = Unused /\ v = Unused

\* BBox::new on the two corners Coordinates::from_unchecked makes of raw.
New ==
    /\ out.op = "none"
    /\ out' = [op |-> "new",
               res |-> BBox_new(Coordinates_from_unchecked(raw[1], raw[2]),
                                Coordinates_from_unchecked(raw[3], raw[4]))]
    /\ UNCHANGED <<raw, a, b, p, q, v>>

\* BBox::from_wrapped(raw)
FromWrapped ==
    /\ out.op = "none"
    /\ out' = [op |-> "from_wrapped",
               val |-> BBox_from_wrapped(raw[1], raw[2], raw[3], raw[4])]
    /\ UNCHANGED <<raw, a, b, p, q, v>>

\* BBox::try_from(raw), and the tuple of the box when it is Ok.
TryFrom ==
    /\ out.op = "none"
    /\ LET res == BBox_try_from(raw)
       IN  out' = [op |-> "try_from", res |-> res,
                   tuple |-> IF res.ok THEN BBox_into_tuple(res.val) ELSE <<>>]
    /\ UNCHANGED <<raw, a, b, p, q, v>>

\* BBox::try_from(tuple of bbox) for the box bbox that BBox::new makes of the
\* two Coordinates from_value makes of raw.
TupleTryFrom ==
    /\ out.op = "none"
    /\ Coordinates_from_value(raw[1], raw[2]).ok
    /\ Coordinates_from_value(raw[3], raw[4]).ok
    /\ LET bbox == BBox_new(Coordinates_from_value(raw[1], raw[2]).val,
                            Coordinates_from_value(raw[3], raw[4]).val)
       IN  /\ bbox.ok
           /\ out' = [op |-> "tuple_try_from", bbox |-> bbox.val,
                      res |-> BBox_try_from(BBox_into_tuple(bbox.val))]
    /\ UNCHANGED <<raw, a, b, p, q, v>>

\* Coordinates::from_value(raw[1], raw[2])
FromValue ==
    /\ out.op = "none"
    /\ out' = [op |-> "from_value",
               res |-> Coordinates_from_value(raw[1], raw[2])]
    /\ UNCHANGED <<raw, a, b, p, q, v>>

\* Coordinates::from_wrapped(raw[1], raw[2]): the return type is Self, there
\* is no error to return.
CoordFromWrapped ==
    /\ out.op = "none"
    /\ out' = [op |-> "coord_from_wrapped",
               val |-> Coordinates_from_wrapped(raw[1], raw[2])]
    /\ UNCHANGED <<raw, a, b, p, q, v>>

\* c = Coordinates::from_wrapped(raw[1], raw[2]), then
\* Coordinates::from_value(c.latitude().value(), c.longitude().value()).
WrappedFromValue ==
    /\ out.op = "none"
    /\ LET c == Coordinates_from_wrapped(raw[1], raw[2])
       IN  out' = [op |-> "wrapped_from_value", c |-> c,
                   res |-> Coordinates_from_value(c.latitude, c.longitude)]
    /\ UNCHANGED <<raw, a, b, p, q, v>>

NextCtor ==
    \/ New \/ FromWrapped \/ TryFrom \/ TupleTryFrom \/ FromValue
    \/ CoordFromWrapped \/ WrappedFromValue

SpecCtor == InitCtor /\ [][NextCtor]_vars

\* The quadruple is in range (longitudes up to and including 180) and
\* strictly ordered on both axes.
RawInRangeOrdered ==
    /\ -90 <= raw[1] /\ raw[1] < raw[3] /\ raw[3] <= 90
    /\ -180 <= raw[2] /\ raw[2] < raw[4] /\ raw[4] <= 180

\* C3 as stated: for every in-range, strictly ordered quadruple with
\* longitudes in [-180, 180], BBox::from_wrapped returns a box whose
\* corners are the quadruple.
C3_Original ==
    (out.op = "from_wrapped" /\ RawInRangeOrdered) =>
        corners(out.val) = raw

\* C3 amended: for every strictly ordered quadruple with latitudes in
\* [-90, 90] and longitudes in the half-open [-180, 180), the corners of
\* BBox::from_wrapped are the quadruple and satisfy the strict corner order,
\* as BBox::new over the same numbers accepts them.
C3_FromWrappedKeepsOrdered ==
    (out.op = "from_wrapped" /\ RawInRangeOrdered /\ raw[4] < 180) =>
        /\ corners(out.val) = raw
        /\ out.val.south_west.latitude < out.val.north_east.latitude
        /\ out.val.south_west.longitude < out.val.north_east.longitude
        /\ BBox_new(out.val.south_west, out.val.north_east)
               = [ok |-> TRUE, val |-> out.val]

C3_Witness ==
    /\ out.op = "from_wrapped"
    /\ raw = <<-90, -180, 90, 0>>
    /\ corners(out.val) = raw

\* C5: BBox::new returns Ok with exactly the two corners iff south_west is
\* strictly less than north_east in latitude and in longitude; otherwise
\* Err(InvalidCornerOrder) carrying both corners.
C5_NewStrictBothAxes ==
    out.op = "new" =>
        IF raw[1] < raw[3] /\ raw[2] < raw[4]
        THEN /\ out.res.ok
             /\ corners(out.res.val) = raw
        ELSE /\ ~out.res.ok
             /\ out.res.err = "InvalidCornerOrder"
             /\ out.res.south_west = [latitude |-> raw[1], longitude |-> raw[2]]
             /\ out.res.north_east = [latitude |-> raw[3], longitude |-> raw[4]]

\* A box degenerate on the longitude axis only is rejected.
C5_Witness ==
    /\ out.op = "new"
    /\ raw = <<0, 0, 90, 0>>
    /\ ~out.res.ok

\* C16: BBox::try_from succeeds exactly when both latitudes are in
\* [-90, 90], both longitudes in [-180, 180] and the corners strictly ordered
\* on both axes; the tuple of try_from(t) is t, and try_from of the tuple of
\* a box accepted by BBox::new is Ok of that box.
C16_TryFromInvertsTuple ==
    /\ out.op = "try_from" =>
        /\ out.res.ok <=>
              /\ -90 <= raw[1] /\ raw[1] <= 90 /\ -90 <= raw[3] /\ raw[3] <= 90
              /\ -180 <= raw[2] /\ raw[2] <= 180
              /\ -180 <= raw[4] /\ raw[4] <= 180
              /\ raw[1] < raw[3] /\ raw[2] < raw[4]
        /\ out.res.ok => out.tuple = raw
    /\ out.op = "tuple_try_from" =>
        /\ out.res.ok
        /\ BBox_eq(out.res.val, out.bbox)

\* A box reaching the longitude bound 180 goes through the tuple and back.
C16_Witness ==
    /\ out.op = "tuple_try_from"
    /\ out.bbox.north_east.longitude = 180
    /\ out.res.ok
    /\ out.res.val = out.bbox

\* C17: Coordinates::from_value(lat, lon) is Ok((lat, lon)) iff lat is in
\* [-90, 90] and lon in [-180, 180]; otherwise the OutOfRange error of the
\* failing scalar, the latitude's when the latitude is out of range (also
\* when both are), else the longitude's.
C17_FromValueValidates ==
    out.op = "from_value" =>
        LET lat_ok == -90 <= raw[1] /\ raw[1] <= 90
            lon_ok == -180 <= raw[2] /\ raw[2] <= 180
        IN  /\ out.res.ok <=> (lat_ok /\ lon_ok)
            /\ out.res.ok =>
                   out.res.val = [latitude |-> raw[1], longitude |-> raw[2]]
            /\ ~lat_ok =>
                   /\ out.res.err = "OutOfRange"
                   /\ out.res.value = raw[1]
                   /\ out.res.range = [start |-> -90, end |-> 90]
            /\ (lat_ok /\ ~lon_ok) =>
                   /\ out.res.err = "OutOfRange"
                   /\ out.res.value = raw[2]
                   /\ out.res.range = [start |-> -180, end |-> 180]

\* Both scalars out of range: the latitude's error is returned.
C17_Witness ==
    /\ out.op = "from_value"
    /\ raw[1] > 90 /\ raw[2] > 180
    /\ ~out.res.ok
    /\ out.res.value = raw[1]

\* C21: Coordinates::from_wrapped(lat, lon) returns, for every pair of raw
\* numbers, the pair (Latitude::from_clamped(lat),
\* Longitude::from_wrapped(lon)): the latitude saturated into [-90, 90], the
\* longitude wrapped circularly into [-180, 180).
C21_CoordFromWrappedClampsAndWraps ==
    out.op = "coord_from_wrapped" =>
        /\ out.val.latitude = Latitude_from_clamped(raw[1])
        /\ out.val.longitude = Longitude_from_wrapped(raw[2])
        /\ out.val.latitude =
               IF raw[1] < -90 THEN -90 ELSE IF raw[1] > 90 THEN 90 ELSE raw[1]
        /\ out.val.longitude = ((raw[2] + 180) % 360) - 180

\* A latitude above the range with a longitude above the range.
C21_Witness ==
    /\ out.op = "coord_from_wrapped"
    /\ raw[1] > 90 /\ raw[2] > 180
    /\ out.val.latitude = 90
    /\ out.val.longitude = raw[2] - 360

\* C30: the infallible constructor only produces values the validated one
\* accepts: with c = Coordinates::from_wrapped(lat, lon), for every pair of
\* raw numbers, Coordinates::from_value on the two values of c is Ok and
\* equal to c.
C30_WrappedIsAcceptedByFromValue ==
    out.op = "wrapped_from_value" =>
        /\ out.res.ok
        /\ Coordinates_eq(out.res.val, out.c)

\* Both raw numbers out of range.
C30_Witness ==
    /\ out.op = "wrapped_from_value"
    /\ raw[1] < -90 /\ raw[2] > 180
    /\ out.res.ok
    /\ out.res.val = out.c

(***************************************************************************)
(* Specification SpecBBox: the BBox operations on pairs of boxes           *)
(***************************************************************************)

\* The Coordinates Coordinates::from_value accepts, over the grid.
ValidCoords ==
    {Coordinates_from_value(lat, lon).val :
        <<lat, lon>> \in {c \in RawLatGrid \X RawLonGrid :
                             Coordinates_from_value(c[1], c[2]).ok}}

\* The boxes BBox::new accepts, over valid Coordinates.
NewBoxes ==
    {BBox_new(c[1], c[2]).val :
        c \in {d \in ValidCoords \X ValidCoords : BBox_new(d[1], d[2]).ok}}

\* The boxes BBox::from_wrapped builds, over the raw quadruples.
WrappedBoxes ==
    {BBox_from_wrapped(r[1], r[2], r[3], r[4]) : r \in RawQuads}

Boxes == NewBoxes \cup WrappedBoxes

InitBBox ==
    /\ a \in Boxes
    /\ b \in Boxes
    /\ out = NoOut
    /\ raw = Unused /\ p = Unused /\ q = Unused /\ v = Unused

\* a.intersects(&b)
Intersects ==
    /\ out.op = "none"
    /\ out' = [op |-> "intersects", val |-> intersects(a, b)]
    /\ UNCHANGED <<raw, a, b, p, q, v>>

\* a.intersection(&b)
Intersection ==
    /\ out.op = "none"
    /\ out' = [op |-> "intersection", res |-> intersection(a, b)]
    /\ UNCHANGED <<raw, a, b, p, q, v>>

\* a.contains_bbox(&b)
ContainsBBox ==
    /\ out.op = "none"
    /\ out' = [op |-> "contains_bbox", val |-> contains_bbox(a, b)]
    /\ UNCHANGED <<raw, a, b, p, q, v>>

\* a.center()
Center ==
    /\ out.op = "none"
    /\ out' = [op |-> "center", val |-> center(a)]
    /\ UNCHANGED <<raw, a, b, p, q, v>>

\* a.intersects(&b) and b.intersects(&a), a.intersection(&b) and
\* b.intersection(&a), as bbox_test::intersects and ::intersection call them.
BothWays ==
    /\ out.op = "none"
    /\ out' = [op |-> "both_ways",
               ab |-> intersects(a, b), ba |-> intersects(b, a),
               res_ab |-> intersection(a, b), res_ba |-> intersection(b, a)]
    /\ UNCHANGED <<raw, a, b, p, q, v>>

\* a.partial_cmp(&b)
BBoxPartialCmp ==
    /\ out.op = "none"
    /\ out' = [op |-> "partial_cmp", val |-> BBox_partial_cmp(a, b)]
    /\ UNCHANGED <<raw, a, b, p, q, v>>

\* a == b
BBoxEq ==
    /\ out.op = "none"
    /\ out' = [op |-> "eq", val |-> BBox_eq(a, b)]
    /\ UNCHANGED <<raw, a, b, p, q, v>>

NextBBox ==
    \/ Intersects \/ Intersection \/ ContainsBBox \/ Center
    \/ BothWays \/ BBoxPartialCmp \/ BBoxEq

SpecBBox == InitBBox /\ [][NextBBox]_vars

\* C1: a.intersection(b) is None exactly when a.intersects(b) is false;
\* otherwise it is Some(c) with c.south_west the axis-wise max of the two
\* south-west corners and c.north_east the axis-wise min of the two
\* north-east corners.
C1_IntersectionIsOverlap ==
    out.op = "intersection" =>
        /\ out.res.some = intersects(a, b)
        /\ out.res.some =>
            /\ out.res.val.south_west.latitude =
                   max(a.south_west.latitude, b.south_west.latitude)
            /\ out.res.val.south_west.longitude =
                   max(a.south_west.longitude, b.south_west.longitude)
            /\ out.res.val.north_east.latitude =
                   min(a.north_east.latitude, b.north_east.latitude)
            /\ out.res.val.north_east.longitude =
                   min(a.north_east.longitude, b.north_east.longitude)

\* C2: intersection is idempotent: for every box a accepted by BBox::new
\* (north-east longitude 180 included), a.intersection(a) is Some(c), c == a.
C2_IntersectionIdempotent ==
    (out.op = "intersection" /\ a \in NewBoxes /\ b = a) =>
        /\ out.res.some
        /\ BBox_eq(out.res.val, a)

\* The corners are ordered, not necessarily strictly, on both axes.
CornersOrdered(bbox) ==
    /\ bbox.south_west.latitude <= bbox.north_east.latitude
    /\ bbox.south_west.longitude <= bbox.north_east.longitude

\* C4 as stated: b.contains_bbox(&b) is true for every box built with
\* BBox::new or BBox::from_wrapped.
C4_Original ==
    (out.op = "contains_bbox" /\ b = a) => out.val

\* C4 amended: b.contains_bbox(&b) is true for every box whose corners are
\* ordered (south_west <= north_east on both axes): every box BBox::new
\* accepts, and a box of BBox::from_wrapped when its wrapped corners are so
\* ordered.
C4_ContainsBBoxReflexive ==
    /\ \A x \in NewBoxes : CornersOrdered(x)
    /\ (out.op = "contains_bbox" /\ b = a /\ CornersOrdered(a)) => out.val

C4_Witness ==
    /\ out.op = "contains_bbox"
    /\ b = a
    /\ a \in WrappedBoxes
    /\ a \notin NewBoxes
    /\ CornersOrdered(a)
    /\ out.val

\* C10: for every box accepted by BBox::new, center() is the midpoint:
\* latitude south_west.latitude + delta_lat_deg / 2, longitude
\* south_west.longitude + delta_lon_deg / 2, also for a box spanning the
\* longitudes -180..180; the box contains its center.
C10_CenterIsMidpoint ==
    (out.op = "center" /\ a \in NewBoxes) =>
        /\ 2 * out.val.latitude =
               2 * a.south_west.latitude
                   + (a.north_east.latitude - a.south_west.latitude)
        /\ 2 * out.val.longitude =
               2 * a.south_west.longitude
                   + (a.north_east.longitude - a.south_west.longitude)
        /\ contains(a, out.val)

C10_Witness ==
    /\ out.op = "center"
    /\ a = BBox_from_unchecked(Coordinates_new(0, -180), Coordinates_new(90, 180))
    /\ out.val = Coordinates_new(45, 0)

\* C12: intersection is commutative: a.intersects(b) = b.intersects(a), and
\* a.intersection(b), b.intersection(a) are both None or both Some of equal
\* boxes.
C12_IntersectionCommutes ==
    out.op = "both_ways" =>
        /\ out.ab = out.ba
        /\ out.res_ab.some = out.res_ba.some
        /\ out.res_ab.some => BBox_eq(out.res_ab.val, out.res_ba.val)

\* Two different boxes that overlap properly.
C12_Witness ==
    /\ out.op = "both_ways"
    /\ a # b
    /\ out.ab /\ out.ba
    /\ out.res_ab.some
    /\ out.res_ab.val \notin {a, b}
    /\ out.res_ab.val = out.res_ba.val

\* C13: a.intersects(b) iff the latitude intervals overlap and the longitude
\* intervals overlap, bounds included: boxes sharing only an edge or a corner
\* intersect, and a gap on one axis makes the result false.
C13_IntersectsIffBothAxesOverlap ==
    out.op = "intersects" =>
        (out.val <=>
            /\ a.south_west.latitude <= b.north_east.latitude
            /\ b.south_west.latitude <= a.north_east.latitude
            /\ a.south_west.longitude <= b.north_east.longitude
            /\ b.south_west.longitude <= a.north_east.longitude)

\* Two boxes accepted by BBox::new that share one corner only.
C13_Witness ==
    /\ out.op = "intersects"
    /\ a \in NewBoxes /\ b \in NewBoxes
    /\ a.north_east = b.south_west
    /\ out.val

\* C15: partial_cmp of BBox is containment-based: Equal when each contains
\* the other, Less when only b contains a, Greater when only a contains b,
\* no ordering when neither contains the other.
C15_BBoxOrderIsContainment ==
    out.op = "partial_cmp" =>
        LET a_in_b ==
                /\ b.south_west.latitude <= a.south_west.latitude
                /\ a.south_west.latitude <= b.north_east.latitude
                /\ b.south_west.longitude <= a.south_west.longitude
                /\ a.south_west.longitude <= b.north_east.longitude
                /\ b.south_west.latitude <= a.north_east.latitude
                /\ a.north_east.latitude <= b.north_east.latitude
                /\ b.south_west.longitude <= a.north_east.longitude
                /\ a.north_east.longitude <= b.north_east.longitude
            b_in_a == contains_bbox(a, b)
        IN  /\ a_in_b = contains_bbox(b, a)
            /\ (a_in_b /\ b_in_a) => out.val = "Equal"
            /\ (a_in_b /\ ~b_in_a) => out.val = "Less"
            /\ (~a_in_b /\ b_in_a) => out.val = "Greater"
            /\ (~a_in_b /\ ~b_in_a) => out.val = "None"

\* a strictly nested in b.
C15_Witness ==
    /\ out.op = "partial_cmp"
    /\ a \in NewBoxes /\ b \in NewBoxes
    /\ a # b
    /\ b.south_west.longitude < a.south_west.longitude
    /\ out.val = "Less"

\* C22: BBox equality is corner-wise: a == b iff the south-west corners are
\* equal and the north-east corners are equal; two boxes of the same area
\* with different corners are not equal.
C22_BBoxEqIsCornerWise ==
    out.op = "eq" =>
        /\ out.val <=>
              /\ a.south_west.latitude = b.south_west.latitude
              /\ a.south_west.longitude = b.south_west.longitude
              /\ a.north_east.latitude = b.north_east.latitude
              /\ a.north_east.longitude = b.north_east.longitude
        /\ (area_deg2(a) = area_deg2(b) /\ corners(a) # corners(b)) => ~out.val

\* Two boxes accepted by BBox::new, of the same non-zero area, with
\* different corners.
C22_Witness ==
    /\ out.op = "eq"
    /\ a \in NewBoxes /\ b \in NewBoxes
    /\ corners(a) # corners(b)
    /\ area_deg2(a) = area_deg2(b)
    /\ ~out.val

\* C26: for every pair of boxes a, b accepted by BBox::new, if
\* a.intersection(b) is Some(c) then a.contains_bbox(c), b.contains_bbox(c)
\* and c.south_west <= c.north_east on both axes.
C26_IntersectionInsideOperands ==
    (/\ out.op = "intersection"
     /\ a \in NewBoxes /\ b \in NewBoxes
     /\ out.res.some) =>
        /\ contains_bbox(a, out.res.val)
        /\ contains_bbox(b, out.res.val)
        /\ CornersOrdered(out.res.val)

(***************************************************************************)
(* Specification SpecCoord: comparison of pairs of Coordinates             *)
(***************************************************************************)

InitCoord ==
    /\ p \in ValidCoords
    /\ q \in ValidCoords
    /\ out = NoOut
    /\ raw = Unused /\ a = Unused /\ b = Unused /\ v = Unused

\* p.partial_cmp(&q) and the operators <, <=, >, >= it provides.
PartialCmp ==
    /\ out.op = "none"
    /\ out' = [op |-> "partial_cmp",
               val |-> Coordinates_partial_cmp(p, q),
               lt |-> Coordinates_lt(p, q), le |-> Coordinates_le(p, q),
               gt |-> Coordinates_gt(p, q), ge |-> Coordinates_ge(p, q)]
    /\ UNCHANGED <<raw, a, b, p, q, v>>

\* p == q
Eq ==
    /\ out.op = "none"
    /\ out' = [op |-> "eq", val |-> Coordinates_eq(p, q)]
    /\ UNCHANGED <<raw, a, b, p, q, v>>

NextCoord == PartialCmp \/ Eq

SpecCoord == InitCoord /\ [][NextCoord]_vars

\* C9: partial_cmp is the dominance table over the per-axis comparisons:
\* (Less,Less), (Less,Equal), (Equal,Less) give Less; (Equal,Equal) gives
\* Equal; (Equal,Greater), (Greater,Equal), (Greater,Greater) give Greater;
\* (Less,Greater) and (Greater,Less) give no ordering, and then none of
\* <, >, <=, >= holds.
C9_DominanceTable ==
    out.op = "partial_cmp" =>
        LET dlat == p.latitude - q.latitude
            dlon == p.longitude - q.longitude
        IN  /\ (dlat < 0 /\ dlon < 0) => out.val = "Less"
            /\ (dlat < 0 /\ dlon = 0) => out.val = "Less"
            /\ (dlat = 0 /\ dlon < 0) => out.val = "Less"
            /\ (dlat = 0 /\ dlon = 0) => out.val = "Equal"
            /\ (dlat = 0 /\ dlon > 0) => out.val = "Greater"
            /\ (dlat > 0 /\ dlon = 0) => out.val = "Greater"
            /\ (dlat > 0 /\ dlon > 0) => out.val = "Greater"
            /\ ((dlat < 0 /\ dlon > 0) \/ (dlat > 0 /\ dlon < 0)) =>
                   /\ out.val = "None"
                   /\ ~out.lt /\ ~out.gt /\ ~out.le /\ ~out.ge

C9_Witness ==
    /\ out.op = "partial_cmp"
    /\ p.latitude > q.latitude
    /\ p.longitude < q.longitude
    /\ out.val = "None"

(***************************************************************************)
(* Specification SpecArith: sequences of arithmetic on one Coordinates     *)
(* value p.  out.lat (out.lon) tells that the latitude (longitude) of p is *)
(* the result of an arithmetic operation.                                  *)
(***************************************************************************)

\* Right-hand sides of + and -.
Addends == RawLonGrid

\* Right-hand sides of * and /.
Factors == -MaxFactor .. MaxFactor

\* Any Coordinates value: from_value's, and from_unchecked's out of range.
AnyCoords ==
    ValidCoords \cup
        {Coordinates_from_unchecked(c[1], c[2]) : c \in RawLatGrid \X RawLonGrid}

InitArith ==
    /\ p \in AnyCoords
    /\ out = [op |-> "none", lat |-> FALSE, lon |-> FALSE]
    /\ raw = Unused /\ a = Unused /\ b = Unused /\ q = Unused /\ v = Unused

\* The latitude of p replaced by the result x of an operation on it.
SetLat(x) ==
    /\ p' = Coordinates_new(x, p.longitude)
    /\ out' = [op |-> "arith", lat |-> TRUE, lon |-> out.lon]
    /\ UNCHANGED <<raw, a, b, q, v>>

\* The longitude of p replaced by the result x of an operation on it.
SetLon(x) ==
    /\ p' = Coordinates_new(p.latitude, x)
    /\ out' = [op |-> "arith", lat |-> out.lat, lon |-> TRUE]
    /\ UNCHANGED <<raw, a, b, q, v>>

\* p replaced by the result c of an operation on it.
SetCoord(c) ==
    /\ p' = c
    /\ out' = [op |-> "arith", lat |-> TRUE, lon |-> TRUE]
    /\ UNCHANGED <<raw, a, b, q, v>>

\* Latitude + k, - k, * k, / k, unary - (and +=, -=, *=, /=)
LatAdd == \E k \in Addends : SetLat(Latitude_add(p.latitude, k))

LatSub == \E k \in Addends : SetLat(Latitude_sub(p.latitude, k))

LatMul == \E k \in Factors : SetLat(Latitude_mul(p.latitude, k))

LatDiv ==
    \E k \in Factors :
        /\ Divides(k, p.latitude)
        /\ SetLat(Latitude_div(p.latitude, k))

LatNeg == SetLat(Latitude_neg(p.latitude))

\* Longitude + k, - k, * k, / k, unary - (and +=, -=, *=, /=)
LonAdd == \E k \in Addends : SetLon(Longitude_add(p.longitude, k))

LonSub == \E k \in Addends : SetLon(Longitude_sub(p.longitude, k))

LonMul == \E k \in Factors : SetLon(Longitude_mul(p.longitude, k))

LonDiv ==
    \E k \in Factors :
        /\ Divides(k, p.longitude)
        /\ SetLon(Longitude_div(p.longitude, k))

LonNeg == SetLon(Longitude_neg(p.longitude))

\* Coordinates + rhs, - rhs, * k, / k (and +=, -=, *=, /=)
CoordAdd == \E rhs \in ValidCoords : SetCoord(Coordinates_add(p, rhs))

CoordSub == \E rhs \in ValidCoords : SetCoord(Coordinates_sub(p, rhs))

CoordMul == \E k \in Factors : SetCoord(Coordinates_mul(p, k))

CoordDiv ==
    \E k \in Factors :
        /\ Divides(k, p.latitude)
        /\ Divides(k, p.longitude)
        /\ SetCoord(Coordinates_div(p, k))

NextArith ==
    \/ LatAdd \/ LatSub \/ LatMul \/ LatDiv \/ LatNeg
    \/ LonAdd \/ LonSub \/ LonMul \/ LonDiv \/ LonNeg
    \/ CoordAdd \/ CoordSub \/ CoordMul \/ CoordDiv

SpecArith == InitArith /\ [][NextArith]_vars

\* C8: after any finite sequence of the arithmetic operations, every
\* resulting latitude lies in [-90, 90] and every resulting longitude in
\* [-180, 180).
C8_ArithmeticStaysInRange ==
    /\ out.lat => (-90 <= p.latitude /\ p.latitude <= 90)
    /\ out.lon => (-180 <= p.longitude /\ p.longitude < 180)

\* A longitude that starts at the bound 180 and has been operated on.
C8_Witness ==
    /\ out.lat /\ out.lon
    /\ p.latitude = 90
    /\ p.longitude = -180

(***************************************************************************)
(* Specification SpecBoxPoint: the BBox operations that take a box a and   *)
(* one Coordinates value p                                                 *)
(***************************************************************************)

InitBoxPoint ==
    /\ a \in Boxes
    /\ p \in ValidCoords
    /\ out = NoOut
    /\ raw = Unused /\ b = Unused /\ q = Unused /\ v = Unused

\* a.expand(p): a is changed in place; out keeps the box before the call.
Expand ==
    /\ out.op = "none"
    /\ Divides(2, p.latitude)
    /\ Divides(2, p.longitude)
    /\ a' = expand(a, p)
    /\ out' = [op |-> "expand", before |-> a]
    /\ UNCHANGED <<raw, b, p, q, v>>

\* a.contains(&p)
Contains ==
    /\ out.op = "none"
    /\ out' = [op |-> "contains", val |-> contains(a, p)]
    /\ UNCHANGED <<raw, a, b, p, q, v>>

\* The scalar k divides the four numbers of the corners of bbox exactly.
DividesBox(k, bbox) ==
    /\ Divides(k, bbox.south_west.latitude)
    /\ Divides(k, bbox.south_west.longitude)
    /\ Divides(k, bbox.north_east.latitude)
    /\ Divides(k, bbox.north_east.longitude)

\* a / k and a * k with the BBox of coord/bbox.rs
BBoxDiv ==
    /\ out.op = "none"
    /\ \E k \in Factors :
          /\ DividesBox(k, a)
          /\ out' = [op |-> "div", k |-> k, val |-> BBox_div(a, k),
                     mul |-> BBox_mul(a, k)]
    /\ UNCHANGED <<raw, a, b, p, q, v>>

\* a / k and a * k with the BBox of coordinates/bbox.rs
CoordinatesBBoxDiv ==
    /\ out.op = "none"
    /\ \E k \in Factors :
          /\ DividesBox(k, a)
          /\ out' = [op |-> "coordinates_div", k |-> k,
                     val |-> coordinates_BBox_div(a, k),
                     mul |-> coordinates_BBox_mul(a, k)]
    /\ UNCHANGED <<raw, a, b, p, q, v>>

NextBoxPoint == Expand \/ Contains \/ BBoxDiv \/ CoordinatesBBoxDiv

SpecBoxPoint == InitBoxPoint /\ [][NextBoxPoint]_vars

\* Saturation into [-90, 90] and reduction into [-180, 180), written out.
Saturated(x) == IF x < -90 THEN -90 ELSE IF x > 90 THEN 90 ELSE x

Reduced(x) == ((x + 180) % 360) - 180

\* C11: expand(delta) replaces south_west by south_west - delta/2 and
\* north_east by north_east + delta/2 on each axis, the latitude clamped to
\* [-90, 90] and the longitude wrapped into [-180, 180); expanding
\* (0,0)-(1,1) by (1,1) gives (-0.5,-0.5)-(1.5,1.5) (stated here in units of
\* half a degree: (0,0)-(2,2) by (2,2) gives (-1,-1)-(3,3)).
C11_ExpandByHalfDelta ==
    /\ expand(BBox_from_unchecked(Coordinates_new(0, 0), Coordinates_new(2, 2)),
              Coordinates_new(2, 2))
           = BBox_from_unchecked(Coordinates_new(-1, -1), Coordinates_new(3, 3))
    /\ out.op = "expand" =>
        LET half_lat == p.latitude \div 2
            half_lon == p.longitude \div 2
        IN  /\ a.south_west.latitude =
                   Saturated(out.before.south_west.latitude - half_lat)
            /\ a.south_west.longitude =
                   Reduced(out.before.south_west.longitude - half_lon)
            /\ a.north_east.latitude =
                   Saturated(out.before.north_east.latitude + half_lat)
            /\ a.north_east.longitude =
                   Reduced(out.before.north_east.longitude + half_lon)

\* A north-east corner that saturates in latitude and wraps in longitude.
C11_Witness ==
    /\ out.op = "expand"
    /\ out.before = BBox_from_unchecked(Coordinates_new(0, 0),
                                        Coordinates_new(90, 180))
    /\ p = Coordinates_new(90, 180)
    /\ a = BBox_from_unchecked(Coordinates_new(-45, -90),
                               Coordinates_new(90, -90))

\* C25: for every box accepted by BBox::new and every delta with non-negative
\* latitude and longitude, after expand(delta) the corners are still ordered
\* (south_west <= north_east on both axes) and the box contains the box as it
\* was before the call.
C25_ExpandGrows ==
    (/\ out.op = "expand"
     /\ out.before \in NewBoxes
     /\ p.latitude >= 0 /\ p.longitude >= 0) =>
        /\ CornersOrdered(a)
        /\ contains_bbox(a, out.before)

\* C14: b.contains(p) iff south_west.latitude <= p.latitude <=
\* north_east.latitude and south_west.longitude <= p.longitude <=
\* north_east.longitude: points on an edge or at a corner are contained, a
\* point out of range on one axis is not.
C14_ContainsIsInclusiveRange ==
    out.op = "contains" =>
        (out.val <=>
            /\ a.south_west.latitude <= p.latitude
            /\ p.latitude <= a.north_east.latitude
            /\ a.south_west.longitude <= p.longitude
            /\ p.longitude <= a.north_east.longitude)

\* A corner of a box accepted by BBox::new.
C14_Witness ==
    /\ out.op = "contains"
    /\ a \in NewBoxes
    /\ p = a.north_east
    /\ out.val

(***************************************************************************)
(* Specification SpecCoordArith: one arithmetic operation on a pair of     *)
(* Coordinates p, q, or on p and a scalar, in its binary and in its        *)
(* assign form                                                             *)
(***************************************************************************)

InitCoordArith ==
    /\ p \in AnyCoords
    /\ q \in AnyCoords
    /\ out = NoOut
    /\ raw = Unused /\ a = Unused /\ b = Unused /\ v = Unused

\* p + q, and p after p += q
AddAndAssign ==
    /\ out.op = "none"
    /\ out' = [op |-> "add", bin |-> Coordinates_add(p, q),
               self |-> Coordinates_add_assign(p, q)]
    /\ UNCHANGED <<raw, a, b, p, q, v>>

\* p - q, and p after p -= q
SubAndAssign ==
    /\ out.op = "none"
    /\ out' = [op |-> "sub", bin |-> Coordinates_sub(p, q),
               self |-> Coordinates_sub_assign(p, q)]
    /\ UNCHANGED <<raw, a, b, p, q, v>>

\* p * k, and p after p *= k
MulAndAssign ==
    /\ out.op = "none"
    /\ \E k \in Factors :
          out' = [op |-> "mul", k |-> k, bin |-> Coordinates_mul(p, k),
                  self |-> Coordinates_mul_assign(p, k)]
    /\ UNCHANGED <<raw, a, b, p, q, v>>

\* p / k, and p after p /= k
DivAndAssign ==
    /\ out.op = "none"
    /\ \E k \in Factors :
          /\ Divides(k, p.latitude)
          /\ Divides(k, p.longitude)
          /\ out' = [op |-> "div", k |-> k, bin |-> Coordinates_div(p, k),
                     self |-> Coordinates_div_assign(p, k)]
    /\ UNCHANGED <<raw, a, b, p, q, v>>

NextCoordArith == AddAndAssign \/ SubAndAssign \/ MulAndAssign \/ DivAndAssign

SpecCoordArith == InitCoordArith /\ [][NextCoordArith]_vars

\* C23: Coordinates arithmetic is component-wise with the per-axis policies:
\* p + q, p - q, p * k and p / k have the latitude of the raw result
\* saturated into [-90, 90] and the longitude of the raw result wrapped into
\* [-180, 180); +=, -=, *=, /= leave the left operand equal to the binary
\* result.
C23_CoordinatesArithmeticComponentWise ==
    /\ out.op = "add" =>
        /\ out.bin.latitude = Saturated(p.latitude + q.latitude)
        /\ out.bin.longitude = Reduced(p.longitude + q.longitude)
        /\ Coordinates_eq(out.self, out.bin)
    /\ out.op = "sub" =>
        /\ out.bin.latitude = Saturated(p.latitude - q.latitude)
        /\ out.bin.longitude = Reduced(p.longitude - q.longitude)
        /\ Coordinates_eq(out.self, out.bin)
    /\ out.op = "mul" =>
        /\ out.bin.latitude = Saturated(p.latitude * out.k)
        /\ out.bin.longitude = Reduced(p.longitude * out.k)
        /\ Coordinates_eq(out.self, out.bin)
    /\ out.op = "div" =>
        /\ \E x \in -MaxRawLatGrid .. MaxRawLatGrid :
              x * out.k = p.latitude /\ out.bin.latitude = Saturated(x)
        /\ \E y \in -MaxRawLonGrid .. MaxRawLonGrid :
              y * out.k = p.longitude /\ out.bin.longitude = Reduced(y)
        /\ Coordinates_eq(out.self, out.bin)

\* A product that saturates in latitude and wraps in longitude.
C23_Witness ==
    /\ out.op = "mul"
    /\ p = Coordinates_new(90, 180) /\ out.k = 2
    /\ out.bin = Coordinates_new(90, 0)
    /\ out.self = out.bin

(***************************************************************************)
(* Specification SpecCoordOrder: the comparisons among three Coordinates   *)
(* p, q, v                                                                 *)
(***************************************************************************)

InitCoordOrder ==
    /\ p \in AnyCoords
    /\ q \in AnyCoords
    /\ v \in AnyCoords
    /\ out = NoOut
    /\ raw = Unused /\ a = Unused /\ b = Unused

\* p.partial_cmp(&q), q.partial_cmp(&p), p == q, and p < q, q < v, p < v
CompareThree ==
    /\ out.op = "none"
    /\ out' = [op |-> "compare",
               pq |-> Coordinates_partial_cmp(p, q),
               qp |-> Coordinates_partial_cmp(q, p),
               eq |-> Coordinates_eq(p, q),
               lt_pq |-> Coordinates_lt(p, q),
               lt_qv |-> Coordinates_lt(q, v),
               lt_pv |-> Coordinates_lt(p, v)]
    /\ UNCHANGED <<raw, a, b, p, q, v>>

NextCoordOrder == CompareThree

SpecCoordOrder == InitCoordOrder /\ [][NextCoordOrder]_vars

\* C27: the dominance relation of Coordinates is a lawful partial order
\* consistent with equality: partial_cmp(p, q) is Equal iff p == q; it is
\* Less iff partial_cmp(q, p) is Greater; p < q and q < v imply p < v.
C27_DominanceIsPartialOrder ==
    out.op = "compare" =>
        /\ (out.pq = "Equal") <=> out.eq
        /\ out.eq <=> (p.latitude = q.latitude /\ p.longitude = q.longitude)
        /\ (out.pq = "Less") <=> (out.qp = "Greater")
        /\ (out.lt_pq /\ out.lt_qv) => out.lt_pv

\* A chain p < q < v that goes up on one axis, then on the other.
C27_Witness ==
    /\ out.op = "compare"
    /\ p.latitude < q.latitude /\ p.longitude = q.longitude
    /\ q.latitude = v.latitude /\ q.longitude < v.longitude
    /\ out.lt_pq /\ out.lt_qv /\ out.lt_pv
    /\ out.pq = "Less" /\ out.qp = "Greater"

(***************************************************************************)
(* Specification SpecBoxOrder: containment among three boxes a, b, v       *)
(***************************************************************************)

\* The corners of the three boxes: the ends and the middle of each range.
ChainCoords ==
    {Coordinates_from_unchecked(lat, lon) :
        lat \in {LATITUDE_RANGE.start, 0, LATITUDE_RANGE.end},
        lon \in {LONGITUDE_RANGE.start, 0, LONGITUDE_RANGE.end}}

\* Every box BBox::from_unchecked builds over these corners: the boxes
\* BBox::new accepts, the boxes BBox::from_wrapped returns (longitudes below
\* 180), and the degenerate and the inverted boxes only from_unchecked makes.
ChainBoxes ==
    {BBox_from_unchecked(sw, ne) : sw \in ChainCoords, ne \in ChainCoords}

InitBoxOrder ==
    /\ a \in ChainBoxes
    /\ b \in ChainBoxes
    /\ v \in ChainBoxes
    /\ out = NoOut
    /\ raw = Unused /\ p = Unused /\ q = Unused

\* a.contains_bbox(&b), b.contains_bbox(&v), a.contains_bbox(&v),
\* b.contains_bbox(&a) and a == b
ContainsThree ==
    /\ out.op = "none"
    /\ out' = [op |-> "contains_bbox",
               ab |-> contains_bbox(a, b), bv |-> contains_bbox(b, v),
               av |-> contains_bbox(a, v), ba |-> contains_bbox(b, a),
               eq |-> BBox_eq(a, b)]
    /\ UNCHANGED <<raw, a, b, p, q, v>>

NextBoxOrder == ContainsThree

SpecBoxOrder == InitBoxOrder /\ [][NextBoxOrder]_vars

\* C28: containment of boxes is transitive and antisymmetric over all
\* constructible boxes: a.contains_bbox(b) and b.contains_bbox(v) imply
\* a.contains_bbox(v); a.contains_bbox(b) and b.contains_bbox(a) imply a == b.
C28_ContainmentIsOrder ==
    out.op = "contains_bbox" =>
        /\ (out.ab /\ out.bv) => out.av
        /\ (out.ab /\ out.ba) => out.eq

\* A chain of three different boxes, the innermost one degenerate to a line
\* as only from_unchecked and from_wrapped build it.
C28_Witness ==
    /\ out.op = "contains_bbox"
    /\ a # b /\ b # v
    /\ BBox_new(a.south_west, a.north_east).ok
    /\ BBox_new(b.south_west, b.north_east).ok
    /\ ~BBox_new(v.south_west, v.north_east).ok
    /\ out.ab /\ out.bv /\ out.av
    /\ ~out.ba /\ ~out.eq

\* The four numbers of the corners are non-zero.
NonZeroCorners(bbox) == \A i \in 1..4 : corners(bbox)[i] # 0

\* C29: in both BBox implementations (coord/bbox.rs and coordinates/bbox.rs)
\* bbox / k has the corners bbox.south_west / k and bbox.north_east / k, so
\* for k other than 1 and -1 it differs from bbox * k on a box with non-zero
\* corners.
C29_DivDividesBothCorners ==
    out.op \in {"div", "coordinates_div"} =>
        /\ Coordinates_eq(out.val.south_west,
                          Coordinates_div(a.south_west, out.k))
        /\ Coordinates_eq(out.val.north_east,
                          Coordinates_div(a.north_east, out.k))
        /\ (out.k \notin {1, -1} /\ NonZeroCorners(a)) =>
               ~BBox_eq(out.val, out.mul)

====
